---- MODULE Spec2Model ----
(***************************************************************************)
(* Model of the expand_str crate (src/src/lib.rs): the '%'-delimited       *)
(* string splitter ExpandableStringSplit (an Iterator) and the expander    *)
(* expand_string_with_values built on it.                                  *)
(*                                                                         *)
(* A string is a sequence of characters; every character has a width in    *)
(* bytes (its UTF-8 length), and all offsets of the scanner are byte       *)
(* offsets, as they are in the code (str::char_indices, str slicing).      *)
(***************************************************************************)
EXTENDS Integers, Sequences, FiniteSets, TLC

VARIABLES src, split, items, call, other

vars == <<src, split, items, call, other>>

----------------------------------------------------------------------------
(* Bounds of the model.                                                    *)

\* Longest input string, in characters.
MaxLen == 6

\* How many characters of an input may be other than "a" and the delimiter.
MaxSpecial == 1

\* How many pulls in all may return None before the pulling stops.
MaxNonePulls == 2

\* Longest input string of each of two scanners that are pulled in turns.
MaxLenTwo == 3

----------------------------------------------------------------------------
(* Characters and strings.                                                 *)

\* The delimiter the scanner compares against (c == '%').
Delim == "%"

\* A two-byte character (U+00E9); every other character of the model is ASCII.
Wide == "U00E9"

\* The characters other than the plain "a" and the delimiter.
Special == {" ", "=", Wide}

\* The characters inputs are built from.
Alphabet == {"a", Delim} \cup Special

\* char::len_utf8: the number of bytes a character takes in a str.
Width(c) == IF c = Wide THEN 2 ELSE 1

\* str::len: the length of a string in bytes.
RECURSIVE ByteLen(_)
ByteLen(s) == IF s = <<>> THEN 0 ELSE Width(Head(s)) + ByteLen(Tail(s))

\* The index (1-based) of the character of s that starts at byte offset b,
\* Len(s) + 1 for the end of s, and 0 when b is no character boundary of s
\* (str::is_char_boundary is false). The walk is at character i, which
\* starts at byte offset off.
RECURSIVE CharIndex(_, _, _, _)
CharIndex(s, b, i, off) ==
    IF off = b THEN i
    ELSE IF off > b \/ i > Len(s) THEN 0
    ELSE CharIndex(s, b, i + 1, off + Width(s[i]))

\* The characters of s from index ia up to (not including) index ib, where
\* either index is 0 for a byte offset that is no character boundary.
SliceChars(s, ia, ib) ==
    IF ia # 0 /\ ib # 0 /\ ia <= ib
    THEN [panic |-> FALSE, text |-> SubSeq(s, ia, ib - 1)]
    ELSE [panic |-> TRUE, text |-> <<>>]

\* &s[a..b]: the characters from byte offset a up to (not including) byte
\* offset b. The slice panics unless a <= b <= len and both offsets are
\* character boundaries; a panicking slice has no text.
Slice(s, a, b) == SliceChars(s, CharIndex(s, a, 1, 0), CharIndex(s, b, 1, 0))

\* A slice to the end that starts one byte late.
SliceFromLate(s, a) == Slice(s, a + 1, ByteLen(s))

\* &s[a..]
SliceFrom(s, a) == Slice(s, a, ByteLen(s))

\* The input strings: at most n characters of Alphabet, at most k of them
\* in Special.
Inputs(n, k) ==
    {s \in UNION {[1..m -> Alphabet] : m \in 0..n} :
        Cardinality({i \in 1..Len(s) : s[i] \in Special}) <= k}

----------------------------------------------------------------------------
(* The scanner: struct ExpandableStringSplit and its Iterator::next.       *)

\* enum ExpandableStrEntry
Substr(text) == [tag |-> "Substr", text |-> text]
Var(text) == [tag |-> "Var", text |-> text]

\* enum ExpandableStrSplitError: InvalidFormat is its only variant.
InvalidFormat == "InvalidFormat"

\* Some(Err(e)), and None, as returned by next.
ErrItem(e) == [tag |-> "Err", err |-> e]
NoneItem == [tag |-> "None"]

\* A pull that panicked while slicing (the call does not return).
PanicItem == [tag |-> "Panic"]

\* The while-let loop ran out of characters without returning.
LoopEnd == [tag |-> "LoopEnd"]

\* s.char_indices(): the iterator before its first character; pos is the
\* number of characters it has yielded and front_offset the byte offset of
\* the character it yields next.
char_indices(s) == [pos |-> 0, front_offset |-> 0]

\* split_expandable_string: the scanner as constructed.
split_expandable_string(s) ==
    [chars_iter |-> char_indices(s), token_start |-> 0,
     reading_var |-> FALSE, done |-> FALSE]

\* The next token starts at the delimiter instead of just past it.
PastDelimSame(n) == n

\* self.token_start = n + 1: the offset just past the delimiter at n.
PastDelim(n) == n + 1

\* Every token cut at a delimiter is returned, empty or not.
TokenReturnedAlways(text) == TRUE

\* !token_slice.is_empty(): whether a token cut at a delimiter is returned.
TokenReturned(text) == text # <<>>

\* The entry chosen by reading_var as it is after the flip.
TokenEntryFlipped(reading_var, text) == IF reading_var THEN Substr(text) ELSE Var(text)

\* The entry built for a token cut at a delimiter; reading_var is the value
\* of self.reading_var before the delimiter flipped it.
TokenEntry(reading_var, text) == IF reading_var THEN Var(text) ELSE Substr(text)

\* The iterator counts characters instead of bytes (chars().enumerate()).
NextOffsetEnumerate(n, c) == n + 1

\* CharIndices::next: the byte offset of the character after c, which is
\* at byte offset n.
NextOffset(n, c) == n + Width(c)

\* The delimiter sets reading_var instead of toggling it.
ToggledSet(reading_var) == TRUE

\* self.reading_var = !reading_var
Toggled(reading_var) == ~reading_var

\* The delimiter at offset 0 leaves token_start as it is.
StartAfterFirstStale(n) == n

\* self.token_start = 1: the start of the next token after a delimiter at
\* offset n = 0.
StartAfterFirst(n) == 1

\* The while-let loop of next: consume characters until a token is returned
\* or the characters run out. Yields the scanner state and the item returned
\* (LoopEnd when the loop falls through).
RECURSIVE ScanLoop(_, _)
ScanLoop(s, st) ==
    IF st.chars_iter.pos >= Len(s)
    THEN [st |-> st, item |-> LoopEnd]
    ELSE LET n == st.chars_iter.front_offset
             c == s[st.chars_iter.pos + 1]
             st1 == [st EXCEPT !.chars_iter =
                        [pos |-> @.pos + 1, front_offset |-> NextOffset(n, c)]]
         IN  IF c = Delim
             THEN LET reading_var == st1.reading_var
                      st2 == [st1 EXCEPT !.reading_var = Toggled(reading_var)]
                  IN  IF n > 0
                      THEN LET token_slice == Slice(s, st2.token_start, n)
                               st3 == [st2 EXCEPT !.token_start = PastDelim(n)]
                           IN  IF token_slice.panic
                               THEN [st |-> st2, item |-> PanicItem]
                               ELSE IF TokenReturned(token_slice.text)
                               THEN [st |-> st3,
                                     item |-> TokenEntry(reading_var, token_slice.text)]
                               ELSE ScanLoop(s, st3)
                      ELSE ScanLoop(s, [st2 EXCEPT !.token_start = StartAfterFirst(n)])
             ELSE ScanLoop(s, st1)

\* An end of input that returns the text of an unterminated variable
\* reference as the trailing literal instead of the error.
EndOfInputLenient(s, st) ==
    LET st1 == [st EXCEPT !.done = TRUE]
        token_slice == SliceFrom(s, st1.token_start)
    IN  IF token_slice.panic
        THEN [st |-> st1, item |-> PanicItem]
        ELSE IF token_slice.text # <<>>
        THEN [st |-> [st1 EXCEPT !.token_start = ByteLen(s)],
              item |-> Substr(token_slice.text)]
        ELSE [st |-> st1, item |-> NoneItem]

\* The end of next, after the loop fell through: the scanner is done; the
\* trailing literal is returned if there is one, an unterminated variable
\* reference is an error.
EndOfInput(s, st) ==
    LET st1 == [st EXCEPT !.done = TRUE]
    IN  IF ~st1.reading_var
        THEN LET token_slice == SliceFrom(s, st1.token_start)
             IN  IF token_slice.panic
                 THEN [st |-> st1, item |-> PanicItem]
                 ELSE IF token_slice.text # <<>>
                 THEN [st |-> [st1 EXCEPT !.token_start = ByteLen(s)],
                       item |-> Substr(token_slice.text)]
                 ELSE [st |-> st1, item |-> NoneItem]
        ELSE [st |-> st1, item |-> ErrItem(InvalidFormat)]

\* A scanner that never remembers that it is done.
NeverDone(st) == FALSE

\* if self.done { return None; }: the check next starts with.
IsDone(st) == st.done

\* What next returns once its loop gave r: the token the loop returned, or
\* the end of input when the loop fell through.
AfterLoop(s, r) == IF r.item = LoopEnd THEN EndOfInput(s, r.st) ELSE r

\* ExpandableStringSplit::next on the scanner st over the string s: the
\* scanner state after the call and the item it returns.
IterNextOf(s, st) ==
    IF IsDone(st)
    THEN [st |-> st, item |-> NoneItem]
    ELSE AfterLoop(s, ScanLoop(s, st))

----------------------------------------------------------------------------
(* The expander: expand_string_with_values.                                *)

\* Option<S>, the result of the caller's get_value.
NoValue == [some |-> FALSE]
SomeValue(v) == [some |-> TRUE, val |-> v]

\* The caller's get_value applied to a key. A lookup is a function from the
\* names it knows about to Option values; any other name has no value.
GetValue(get_value, key) ==
    IF key \in DOMAIN get_value THEN get_value[key] ELSE NoValue

\* enum ExpandStringError
ExpandInvalidFormat == [kind |-> "InvalidFormat"]
MissingVariable(id) == [kind |-> "MissingVariable", name |-> id]

\* impl From<ExpandableStrSplitError> for ExpandStringError
FromSplitError(e) == ExpandInvalidFormat

\* Result<String, ExpandStringError>: Ok carries the expanded string and Err
\* only the error.
Ok(s) == [tag |-> "Ok", out |-> s]
Err(e) == [tag |-> "Err", err |-> e]

\* The call did not return: the scanner panicked.
Panicked == [tag |-> "Panic"]

\* The literal is put in front of the text accumulated so far.
PushSubstrFront(expanded_str, s) == s \o expanded_str

\* expanded_str += s, for a literal entry.
PushSubstr(expanded_str, s) == expanded_str \o s

\* The texts of the segments a scan of s from st gives, concatenated.
RECURSIVE ScanTexts(_, _)
ScanTexts(s, st) ==
    LET r == IterNextOf(s, st)
    IN  IF r.item.tag \in {"Substr", "Var"}
        THEN r.item.text \o ScanTexts(s, r.st)
        ELSE <<>>

\* The value is scanned like the source before it is appended.
PushValueScanned(expanded_str, val) ==
    expanded_str \o ScanTexts(val, split_expandable_string(val))

\* expanded_str += val.as_ref(), for the value of a variable.
PushValue(expanded_str, val) == expanded_str \o val

\* The key handed to get_value keeps the delimiters of the reference.
LookupKeyDelimited(id) == <<Delim>> \o id \o <<Delim>>

\* get_value(id): the key the lookup is called with for the variable id.
LookupKey(id) == id

\* A missing variable ends the call with the text accumulated so far.
MissingResultPartial(expanded_str, id) == Ok(expanded_str)

\* What a missing variable makes the call return; expanded_str is the text
\* accumulated so far, id the variable.
MissingResult(expanded_str, id) == Err(MissingVariable(id))

\* The for loop of expand_string_with_values over the scanner st, with the
\* text accumulated so far. Besides the result it yields the keys get_value
\* was called with, in order, and the number of pulls made on the scanner.
\* ExpandEntry is the loop's body for r, what the pull on the scanner gave:
\* the scanner state after it and the item returned.
RECURSIVE ExpandLoop(_, _, _, _, _, _), ExpandEntry(_, _, _, _, _, _)
ExpandEntry(s, get_value, r, expanded_str, calls, pulls) ==
    CASE r.item.tag = "None" ->
           [result |-> Ok(expanded_str), calls |-> calls, pulls |-> pulls]
      [] r.item.tag = "Err" ->
           [result |-> Err(FromSplitError(r.item.err)),
            calls |-> calls, pulls |-> pulls]
      [] r.item.tag = "Panic" ->
           [result |-> Panicked, calls |-> calls, pulls |-> pulls]
      [] r.item.tag = "Substr" ->
           ExpandLoop(s, get_value, r.st, PushSubstr(expanded_str, r.item.text),
                      calls, pulls)
      [] r.item.tag = "Var" ->
           LET id == r.item.text
               key == LookupKey(id)
               val == GetValue(get_value, key)
           IN  IF ~val.some
               THEN [result |-> MissingResult(expanded_str, id),
                     calls |-> Append(calls, key), pulls |-> pulls]
               ELSE ExpandLoop(s, get_value, r.st,
                               PushValue(expanded_str, val.val),
                               Append(calls, key), pulls)

ExpandLoop(s, get_value, st, expanded_str, calls, pulls) ==
    ExpandEntry(s, get_value, IterNextOf(s, st), expanded_str, calls, pulls + 1)

\* A scan of s from st to its end: whether it ends with an error, and the
\* number of pulls made, the pulls made before included.
RECURSIVE ScanToEnd(_, _, _)
ScanToEnd(s, st, pulls) ==
    LET r == IterNextOf(s, st)
    IN  IF r.item.tag \in {"Substr", "Var"}
        THEN ScanToEnd(s, r.st, pulls + 1)
        ELSE [err |-> r.item.tag = "Err", pulls |-> pulls + 1]

\* An expansion that first scans the whole source, and returns the scan
\* error if there is one before it looks up any variable.
expand_after_full_scan(s, get_value) ==
    LET all == ScanToEnd(s, split_expandable_string(s), 0)
    IN  IF all.err
        THEN [result |-> Err(ExpandInvalidFormat), calls |-> <<>>,
              pulls |-> all.pulls]
        ELSE ExpandLoop(s, get_value, split_expandable_string(s), <<>>, <<>>, 0)

\* expand_string_with_values(s, get_value)
expand_string_with_values(s, get_value) ==
    ExpandLoop(s, get_value, split_expandable_string(s), <<>>, <<>>, 0)

----------------------------------------------------------------------------
(* State machine.                                                          *)
(*   src    the string the scanner was constructed over                    *)
(*   split  the scanner (ExpandableStringSplit)                            *)
(*   items  what the pulls made on the scanner so far returned, in order   *)
(*   call   the expand_string_with_values call made on src, if any         *)

NoCall == [op |-> "none"]

\* No second scanner has been built.
NoOther == [op |-> "none"]

\* The pieces of s between its delimiters, in order: s is
\* piece 1, delimiter, piece 2, delimiter, ..., piece k+1 for k delimiters.
RECURSIVE PiecesFrom(_, _, _)
PiecesFrom(s, i, cur) ==
    IF i > Len(s) THEN <<cur>>
    ELSE IF s[i] = Delim THEN <<cur>> \o PiecesFrom(s, i + 1, <<>>)
    ELSE PiecesFrom(s, i + 1, Append(cur, s[i]))

Pieces(s) == PiecesFrom(s, 1, <<>>)

\* The values a lookup may give: plain text, a lone delimiter, and a text
\* that reads as a variable reference.
Values == {<<"v">>, <<Delim>>, <<Delim, "a", Delim>>}

\* The lookups tried on s: every assignment of a value, or of none, to the
\* non-empty texts that follow an opening delimiter of s (the names of its
\* variable references, closed or not). Any other name has no value.
Lookups(s) ==
    LET names == {Pieces(s)[i] : i \in {j \in 1..Len(Pieces(s)) : j % 2 = 0}} \ {<<>>}
    IN  [names -> {NoValue} \cup {SomeValue(v) : v \in Values}]

\* How many of the items are t-tagged.
CountTag(seq, t) == Cardinality({i \in 1..Len(seq) : seq[i].tag = t})

Init ==
    /\ src \in Inputs(MaxLen, MaxSpecial)
    /\ split = split_expandable_string(src)
    /\ items = <<>>
    /\ call = NoCall
    /\ other = NoOther

\* The scanner and the history after a pull that gave r.
Pulled(r) ==
    /\ split' = r.st
    /\ items' = Append(items, r.item)

\* One call of next on the scanner. The pulling goes on until MaxNonePulls
\* pulls have returned None, or one has panicked.
IterNext ==
    /\ call = NoCall
    /\ CountTag(items, "Panic") = 0
    /\ CountTag(items, "None") < MaxNonePulls
    /\ Pulled(IterNextOf(src, split))
    /\ UNCHANGED <<src, call, other>>

\* One call of expand_string_with_values on src, with a lookup of the
\* caller's choice. The call builds a scanner of its own.
Expand ==
    /\ call = NoCall
    /\ items = <<>>
    /\ \E get_value \in Lookups(src) :
          call' = [op |-> "expand", get_value |-> get_value,
                   ret |-> expand_string_with_values(src, get_value)]
    /\ UNCHANGED <<src, split, items, other>>

Next == IterNext \/ Expand

Spec == Init /\ [][Next]_vars

----------------------------------------------------------------------------
(* Two scanners, each over an input of its own, pulled in turns.           *)

\* The inputs of the two scanners: the characters the scanner tells apart
\* are the delimiter, a one-byte character and a two-byte one.
InputsTwo ==
    {s \in Inputs(MaxLenTwo, MaxSpecial) :
        \A i \in 1..Len(s) : s[i] \in {"a", Delim, Wide}}

\* Two calls of split_expandable_string: the second scanner is built over
\* the same string as the first, or over another one.
InitTwo ==
    /\ src \in InputsTwo
    /\ split = split_expandable_string(src)
    /\ items = <<>>
    /\ call = NoCall
    /\ \E s \in {src} \cup Inputs(MaxLenTwo, 0) :
          other = [src |-> s, split |-> split_expandable_string(s), items |-> <<>>]

\* A pull of the second scanner that writes the fields of the first one as
\* well, as if the two scanners were one.
OtherPulledShared(r) ==
    /\ other' = [other EXCEPT !.split = r.st, !.items = Append(@, r.item)]
    /\ split' = r.st
    /\ UNCHANGED <<src, items, call>>

\* The second scanner and its history after a pull that gave r: next takes
\* &mut self and writes the fields of self only.
OtherPulled(r) ==
    /\ other' = [other EXCEPT !.split = r.st, !.items = Append(@, r.item)]
    /\ UNCHANGED <<src, split, items, call>>

\* One call of next on the second scanner.
IterNextOther ==
    /\ CountTag(other.items, "Panic") = 0
    /\ CountTag(other.items, "None") < MaxNonePulls
    /\ OtherPulled(IterNextOf(other.src, other.split))

NextTwo == IterNext \/ IterNextOther

SpecTwo == InitTwo /\ [][NextTwo]_vars

----------------------------------------------------------------------------
(* Vocabulary of the properties: the input read as pieces between          *)
(* delimiters, and what the pulls returned so far.                         *)

\* The number of delimiters in s.
NumDelims(s) == Len(Pieces(s)) - 1

\* Piece number i (1-based) is the text of a variable reference when i is
\* even, literal text when i is odd.
IsVarPiece(i) == i % 2 = 0

\* A variable reference is closed when a delimiter follows its text.
IsClosed(s, i) == i <= NumDelims(s)

HasInvalidChar(text) == \E j \in 1..Len(text) : text[j] \in {" ", "="}

\* A space or '=' inside some variable reference of s (closed or not).
InvalidVarName(s) ==
    \E i \in 1..Len(Pieces(s)) : IsVarPiece(i) /\ HasInvalidChar(Pieces(s)[i])

\* The first closed variable reference of s with a space or '=' in it, or 0.
FirstInvalidClosed(s) ==
    LET bad == {i \in 1..Len(Pieces(s)) :
                  IsVarPiece(i) /\ IsClosed(s, i) /\ HasInvalidChar(Pieces(s)[i])}
    IN  IF bad = {} THEN 0 ELSE CHOOSE i \in bad : \A j \in bad : i <= j

\* The segments of pieces 1..n of s, in order: an odd piece is a literal, an
\* even piece a variable, an empty piece gives no segment.
RECURSIVE SegmentsUpTo(_, _)
SegmentsUpTo(s, n) ==
    IF n = 0 THEN <<>>
    ELSE LET text == Pieces(s)[n]
             rest == SegmentsUpTo(s, n - 1)
         IN  IF text = <<>> THEN rest
             ELSE IF IsVarPiece(n) THEN Append(rest, Var(text))
             ELSE Append(rest, Substr(text))

\* The reference scan of s: the segments of all its pieces, the last piece
\* replaced by the error when the number of delimiters is odd.
RefScan(s) ==
    IF NumDelims(s) % 2 = 1
    THEN Append(SegmentsUpTo(s, NumDelims(s)), ErrItem(InvalidFormat))
    ELSE SegmentsUpTo(s, Len(Pieces(s)))

\* The items the pulls returned, without the Nones.
Emitted == SelectSeq(items, LAMBDA it : it.tag # "None")

\* The scanner has told its caller that the sequence is over.
Exhausted == items # <<>> /\ items[Len(items)].tag = "None"

IsPrefix(a, b) == Len(a) <= Len(b) /\ a = SubSeq(b, 1, Len(a))

HasTag(seq, t) == \E i \in 1..Len(seq) : seq[i].tag = t

\* The text a segment stands for in the source: a literal is its text, a
\* variable its name between two delimiters.
RECURSIVE Reconstruct(_)
Reconstruct(seq) ==
    IF seq = <<>> THEN <<>>
    ELSE LET it == Head(seq)
         IN  (IF it.tag = "Var" THEN <<Delim>> \o it.text \o <<Delim>>
              ELSE IF it.tag = "Substr" THEN it.text
              ELSE <<>>) \o Reconstruct(Tail(seq))

\* Even number of delimiters, no space or '=' in any variable name.
WellFormed(s) == NumDelims(s) % 2 = 0 /\ ~InvalidVarName(s)

\* Some variable reference of s is empty: a delimiter that opens a reference
\* is directly followed by the one that closes it.
HasEmptyRef(s) ==
    \E i \in 1..Len(Pieces(s)) : IsVarPiece(i) /\ IsClosed(s, i) /\ Pieces(s)[i] = <<>>

----------------------------------------------------------------------------
(* C1. A space or '=' inside a closed variable reference makes the scanner *)
(* yield the segments completed before that reference, then the error      *)
(* InvalidVariableName, and nothing after it.                              *)

\* C1: once the scanner over such an input is done, what it returned is the
\* segments of the pieces before the offending reference, then the error
\* InvalidVariableName; and at every moment what it returned is a prefix of
\* that sequence.
C1_InvalidVariableName ==
    FirstInvalidClosed(src) # 0 =>
        LET want == Append(SegmentsUpTo(src, FirstInvalidClosed(src) - 1),
                           ErrItem("InvalidVariableName"))
        IN  /\ IsPrefix(Emitted, want)
            /\ split.done => Emitted = want

----------------------------------------------------------------------------
(* C2. Well-formed inputs scan without error and the segments reconstruct  *)
(* the input.                                                              *)

\* C2 as stated: for every well-formed input no error is returned and, once
\* the sequence is over, the segments written back (a literal as its text, a
\* variable as delimiter + name + delimiter) give the input.
C2_RoundTripStated ==
    WellFormed(src) =>
        /\ ~HasTag(items, "Err")
        /\ Exhausted => Reconstruct(Emitted) = src

\* C2 amended: the same for the well-formed inputs without an empty variable
\* reference ("%%" is suppressed, so it cannot be written back).
C2_RoundTrip ==
    (WellFormed(src) /\ ~HasEmptyRef(src)) =>
        /\ ~HasTag(items, "Err")
        /\ Exhausted => Reconstruct(Emitted) = src

\* A literal, then a variable, then the end of a well-formed input.
C2_Witness ==
    /\ WellFormed(src) /\ ~HasEmptyRef(src)
    /\ Exhausted
    /\ HasTag(items, "Substr") /\ HasTag(items, "Var")
    /\ Reconstruct(Emitted) = src

----------------------------------------------------------------------------
(* C3. Termination is monotonic.                                           *)

\* The last pull returned the trailing literal: a literal returned when the
\* characters had run out, not one cut at a delimiter.
TrailingLiteralReturned ==
    /\ items # <<>>
    /\ items[Len(items)].tag = "Substr"
    /\ split.chars_iter.pos = Len(src)
    /\ src[Len(src)] # Delim

\* A pull that returned an error, None or the trailing literal has set done.
C3_DoneSet ==
    (HasTag(items, "Err") \/ HasTag(items, "None") \/ TrailingLiteralReturned)
        => split.done

\* Every pull after one that returned an error or None returned None.
C3_NoneAfterEnd ==
    \A i, j \in 1..Len(items) :
        (i < j /\ items[i].tag \in {"Err", "None"}) => items[j] = NoneItem

\* done is never cleared, and a pull on a done scanner returns None.
C3_Step ==
    split.done =>
        /\ split'.done
        /\ items' # items => items' = Append(items, NoneItem)

\* C3: once a pull has returned an error, None or the trailing literal, done
\* is set, it is never cleared, and every later pull returns None; so at most
\* one error is produced and no segment follows it.
C3_Monotonic == [](C3_DoneSet /\ C3_NoneAfterEnd) /\ [][C3_Step]_vars

\* An error, then the pulls after it, all None.
C3_Witness ==
    /\ HasTag(items, "Err")
    /\ CountTag(items, "None") >= 2
    /\ split.done

\* The trailing literal was returned and the pulls after it gave None.
C3_WitnessTrailing ==
    /\ NumDelims(src) > 0
    /\ Len(items) >= 3
    /\ items[Len(items) - 2].tag = "Substr"
    /\ items[Len(items) - 1] = NoneItem
    /\ items[Len(items)] = NoneItem

----------------------------------------------------------------------------
(* C4. An odd number of delimiters ends the sequence with the one error    *)
(* InvalidFormat; an even number gives no error.                           *)

\* The scanner's sequence has ended: its last item is an error or None.
Ended == items # <<>> /\ items[Len(items)].tag \in {"Err", "None"}

\* C4: for an input with an odd number of delimiters and no space or '=' in
\* a variable reference, the ended sequence is the segments of the pieces
\* before the last (unmatched) delimiter, then the one error InvalidFormat,
\* so the text after that delimiter is no segment; for an even number of
\* delimiters no error is ever returned.
C4_Malformed ==
    /\ (NumDelims(src) % 2 = 1 /\ ~InvalidVarName(src) /\ Ended) =>
           /\ Emitted = Append(SegmentsUpTo(src, NumDelims(src)),
                               ErrItem(InvalidFormat))
           /\ CountTag(items, "Err") = 1
    /\ NumDelims(src) % 2 = 0 => ~HasTag(items, "Err")

\* Segments, then the error for an unmatched delimiter with text after it.
C4_Witness ==
    /\ NumDelims(src) % 2 = 1 /\ ~InvalidVarName(src)
    /\ Pieces(src)[Len(Pieces(src))] # <<>>
    /\ Exhausted
    /\ HasTag(items, "Var") /\ HasTag(items, "Err")

----------------------------------------------------------------------------
(* C5. The scanner's output is the reference split.                        *)

\* C5: for an input without a space or '=' in a variable reference, what
\* the scanner has returned is at every moment a prefix of the reference
\* scan (pieces between delimiters, odd pieces literal and even pieces
\* variable, empty pieces dropped, the last piece replaced by the error when
\* the delimiters are odd in number), and the whole of it once ended.
C5_Reference ==
    ~InvalidVarName(src) =>
        /\ IsPrefix(Emitted, RefScan(src))
        /\ Ended => Emitted = RefScan(src)

\* Two adjacent variable references, as in "%foo%%bar%".
C5_Witness ==
    /\ ~InvalidVarName(src)
    /\ NumDelims(src) = 4
    /\ Exhausted
    /\ Len(Emitted) = 2
    /\ Emitted[1].tag = "Var" /\ Emitted[2].tag = "Var"

----------------------------------------------------------------------------
(* C6. No segment is empty.                                                *)

\* C6: no literal and no variable a pull returned has an empty text.
C6_NonEmpty ==
    \A i \in 1..Len(items) :
        items[i].tag \in {"Substr", "Var"} => items[i].text # <<>>

\* An input with an empty piece at a delimiter and an empty trailing piece
\* has been scanned to its end, and gave some segment.
C6_Witness ==
    /\ \E i \in 1..NumDelims(src) : Pieces(src)[i] = <<>>
    /\ Pieces(src)[Len(Pieces(src))] = <<>>
    /\ Exhausted
    /\ HasTag(items, "Var")

----------------------------------------------------------------------------
(* C7. An input without delimiter is one literal.                          *)

\* C7: for an input without delimiter the first pull returns the literal of
\* the whole input, if it is not empty, and every other pull returns None.
C7_NoDelimiter ==
    NumDelims(src) = 0 =>
        \A i \in 1..Len(items) :
            items[i] = IF i = 1 /\ src # <<>> THEN Substr(src) ELSE NoneItem

\* The whole input was returned as one literal, then None.
C7_Witness ==
    /\ NumDelims(src) = 0
    /\ Len(src) > 1
    /\ items = <<Substr(src), NoneItem>>

\* The empty input gave None at once.
C7_WitnessEmpty == src = <<>> /\ items = <<NoneItem>>

----------------------------------------------------------------------------
(* Vocabulary of the expander's properties. p is Pieces(src) and lk the    *)
(* lookup of the call.                                                     *)

Expanded == call.op = "expand"

\* The variable references the scanner returns: closed and not empty.
IsEmittedVar(p, i) == IsVarPiece(i) /\ i < Len(p) /\ p[i] # <<>>

\* The first reference the scanner returns for which lk has no value, or 0.
FirstMissing(p, lk) ==
    LET bad == {i \in 1..Len(p) : IsEmittedVar(p, i) /\ ~lk[p[i]].some}
    IN  IF bad = {} THEN 0 ELSE CHOOSE i \in bad : \A j \in bad : i <= j

\* The names of the references among pieces 1..n the scanner returns.
RECURSIVE VarNamesUpTo(_, _)
VarNamesUpTo(p, n) ==
    IF n = 0 THEN <<>>
    ELSE IF IsEmittedVar(p, n) THEN Append(VarNamesUpTo(p, n - 1), p[n])
    ELSE VarNamesUpTo(p, n - 1)

\* Pieces 1..n with every literal verbatim and every variable replaced by
\* its value under lk; the delimiters are gone.
RECURSIVE RefExpandUpTo(_, _, _)
RefExpandUpTo(p, lk, n) ==
    IF n = 0 THEN <<>>
    ELSE RefExpandUpTo(p, lk, n - 1) \o
         (IF ~IsVarPiece(n) THEN p[n]
          ELSE IF p[n] = <<>> THEN <<>>
          ELSE lk[p[n]].val)

\* The number of delimiter characters in a text.
DelimsIn(text) == Cardinality({i \in 1..Len(text) : text[i] = Delim})

\* The sum of DelimsIn over the values of the names in the sequence.
RECURSIVE DelimsInValues(_, _)
DelimsInValues(names, lk) ==
    IF names = <<>> THEN 0
    ELSE DelimsIn(lk[Head(names)].val) + DelimsInValues(Tail(names), lk)

----------------------------------------------------------------------------
(* C8. Expansion concatenates literals and looked-up values.               *)

\* C8: when the input has an even number of delimiters and the lookup has a
\* value for every non-empty variable name, the call returns Ok with the
\* literals verbatim and the values of the variables, in source order, and
\* nothing else.
C8_Expands ==
    Expanded =>
        LET p == Pieces(src)
            lk == call.get_value
        IN  (Len(p) % 2 = 1 /\ FirstMissing(p, lk) = 0) =>
                call.ret.result = Ok(RefExpandUpTo(p, lk, Len(p)))

\* A call over two variables of different names that returned Ok.
C8_Witness ==
    /\ Expanded
    /\ call.ret.result.tag = "Ok"
    /\ Len(call.ret.calls) = 2
    /\ call.ret.calls[1] # call.ret.calls[2]

\* A call over a literal, a variable and a trailing literal that returned Ok.
C8_WitnessLiterals ==
    /\ Expanded
    /\ call.ret.result.tag = "Ok"
    /\ Len(call.ret.calls) = 1
    /\ Len(Pieces(src)) = 3
    /\ Pieces(src)[1] # <<>> /\ Pieces(src)[3] # <<>>

----------------------------------------------------------------------------
(* C9. A missing variable is the result, without any output.               *)

\* C9: when the lookup has no value for some variable the scanner returns,
\* the call returns Err(MissingVariable(name)) for the first such variable
\* in source order, and the result holds the error only: no output text.
C9_MissingVariable ==
    Expanded =>
        LET p == Pieces(src)
            lk == call.get_value
            i == FirstMissing(p, lk)
        IN  i # 0 =>
                /\ call.ret.result = Err(MissingVariable(p[i]))
                /\ DOMAIN call.ret.result = {"tag", "err"}

\* The second variable is missing, after a variable that was resolved.
C9_Witness ==
    /\ Expanded
    /\ call.ret.result.tag = "Err"
    /\ call.ret.result.err.kind = "MissingVariable"
    /\ Len(call.ret.calls) = 2
    /\ call.get_value[call.ret.calls[1]].some

\* A variable is missing after literal text, in an input that also has an
\* unmatched delimiter further on.
C9_WitnessLiteral ==
    /\ Expanded
    /\ call.ret.result.tag = "Err"
    /\ call.ret.result.err.kind = "MissingVariable"
    /\ Pieces(src)[1] # <<>>
    /\ NumDelims(src) = 3

----------------------------------------------------------------------------
(* C10. Expansion is not recursive.                                        *)

\* C10: when no variable is missing and the value of some variable holds a
\* delimiter, the lookup is still called for the variables of the source
\* only, once each and in order; no MissingVariable results; an input with
\* an even number of delimiters gives Ok, the output holding exactly the
\* delimiters of the values looked up, and the only error possible is the
\* one for the source's own unmatched delimiter.
C10_NotRecursive ==
    Expanded =>
        LET p == Pieces(src)
            lk == call.get_value
            names == VarNamesUpTo(p, Len(p))
        IN  (/\ FirstMissing(p, lk) = 0
             /\ \E k \in 1..Len(names) : DelimsIn(lk[names[k]].val) > 0) =>
                /\ call.ret.calls = names
                /\ IF Len(p) % 2 = 1
                   THEN /\ call.ret.result.tag = "Ok"
                        /\ DelimsIn(call.ret.result.out) = DelimsInValues(names, lk)
                   ELSE call.ret.result = Err(ExpandInvalidFormat)

\* Both a value that reads as a variable reference and a lone delimiter
\* were appended, and the call returned Ok.
C10_Witness ==
    /\ Expanded
    /\ call.ret.result.tag = "Ok"
    /\ Len(call.ret.calls) = 2
    /\ call.get_value[call.ret.calls[1]].val = <<Delim, "a", Delim>>
    /\ call.get_value[call.ret.calls[2]].val = <<Delim>>

----------------------------------------------------------------------------
(* C11. The expander reports the first error in scan order and stops.      *)

\* C11: a variable without value that precedes an unterminated reference
\* gives MissingVariable for it, not the scan error; the scan error, wrapped
\* as the expand error, is the result only when every variable before the
\* unmatched delimiter has a value; and the call makes no pull and no
\* lookup after the first error: the pulls are those for the segments up to
\* the missing variable, or up to the scan error, and the lookups those for
\* the variables up to there.
C11_FirstError ==
    Expanded =>
        LET p == Pieces(src)
            lk == call.get_value
            i == FirstMissing(p, lk)
        IN  /\ i # 0 =>
                /\ call.ret.result = Err(MissingVariable(p[i]))
                /\ call.ret.pulls = Len(SegmentsUpTo(src, i))
                /\ Len(call.ret.calls) = Len(VarNamesUpTo(p, i))
            /\ (i = 0 /\ Len(p) % 2 = 0) =>
                /\ call.ret.result = Err(ExpandInvalidFormat)
                /\ call.ret.pulls = Len(RefScan(src))
                /\ Len(call.ret.calls) = Len(VarNamesUpTo(p, Len(p)))
            /\ call.ret.result.tag = "Err" => (i # 0 \/ Len(p) % 2 = 0)

\* A missing variable before an unterminated reference that has a name.
C11_Witness ==
    /\ Expanded
    /\ NumDelims(src) = 3
    /\ Pieces(src)[4] # <<>>
    /\ call.ret.result.tag = "Err"
    /\ call.ret.result.err.kind = "MissingVariable"

\* The scan error of an unterminated reference, after a resolved variable.
C11_WitnessScanError ==
    /\ Expanded
    /\ call.ret.result = Err(ExpandInvalidFormat)
    /\ Len(call.ret.calls) = 1
    /\ Pieces(src)[Len(Pieces(src))] # <<>>

----------------------------------------------------------------------------
(* C12. An empty variable reference is suppressed and is no error.         *)

\* The delimiter consumed last is the one that closes an empty reference.
ClosedEmptyRef ==
    LET pos == split.chars_iter.pos
        d == DelimsIn(SubSeq(src, 1, pos))
    IN  /\ pos >= 1
        /\ src[pos] = Delim
        /\ d % 2 = 0
        /\ Pieces(src)[d] = <<>>

\* C12: for an input with an empty reference the scanner returns what the
\* reference scan gives, in which the empty reference is no item and the
\* pieces after it are scanned as usual; right after the delimiter that
\* closes an empty reference the scanner is out of variable mode; for "%%"
\* every pull returns None, and expanding it gives Ok with the empty string;
\* the lookup is never called with an empty name.
C12_EmptyReference ==
    /\ HasEmptyRef(src) =>
           /\ IsPrefix(Emitted, RefScan(src))
           /\ Ended => Emitted = RefScan(src)
    /\ ClosedEmptyRef => ~split.reading_var
    /\ src = <<Delim, Delim>> => \A i \in 1..Len(items) : items[i] = NoneItem
    /\ Expanded =>
           /\ \A k \in 1..Len(call.ret.calls) : call.ret.calls[k] # <<>>
           /\ src = <<Delim, Delim>> =>
                  /\ call.ret.result = Ok(<<>>)
                  /\ call.ret.calls = <<>>

\* A literal, an empty reference and a literal: the scanner went over the
\* empty reference and returned the text after it.
C12_Witness ==
    /\ Len(Pieces(src)) = 3
    /\ Pieces(src)[2] = <<>>
    /\ Exhausted
    /\ Len(Emitted) = 2

\* The scanner stopped right after the closing delimiter of an empty
\* reference.
C12_WitnessMode == ClosedEmptyRef /\ split.done /\ Emitted # <<>>

\* "%%" was expanded.
C12_WitnessExpand == Expanded /\ src = <<Delim, Delim>>

----------------------------------------------------------------------------
(* C13. reading_var and token_start follow the delimiters consumed.        *)

\* The characters the scanner has consumed.
Consumed == SubSeq(src, 1, split.chars_iter.pos)

\* The index of the last delimiter in text, 0 when it has none.
LastDelim(text) ==
    LET at == {i \in 1..Len(text) : text[i] = Delim}
    IN  IF at = {} THEN 0 ELSE CHOOSE i \in at : \A j \in at : j <= i

\* The trailing literal of src has been returned.
TrailingLiteralEmitted ==
    /\ split.done
    /\ src # <<>>
    /\ src[Len(src)] # Delim
    /\ NumDelims(src) % 2 = 0

\* C13: in every state of the scanner reading_var is true exactly when the
\* number of delimiters consumed is odd, and token_start is 0 when no
\* delimiter was consumed and otherwise the byte offset just past the last
\* delimiter consumed, until the trailing literal is returned, which moves
\* it to the end of the input. As this holds after every pull, a delimiter
\* consumed without a segment returned for it has flipped reading_var too.
C13_CursorState ==
    /\ split.reading_var <=> (DelimsIn(Consumed) % 2 = 1)
    /\ split.token_start =
          IF TrailingLiteralEmitted THEN ByteLen(src)
          ELSE IF LastDelim(Consumed) = 0 THEN 0
          ELSE ByteLen(SubSeq(src, 1, LastDelim(Consumed)))

\* Three delimiters consumed for one segment returned: the scanner is in
\* variable mode.
C13_Witness ==
    /\ DelimsIn(Consumed) = 3
    /\ split.reading_var
    /\ ~split.done
    /\ Len(Emitted) = 1

----------------------------------------------------------------------------
(* C14. Every slice is in bounds and on character boundaries.              *)

\* b is a byte offset at which a character of s starts, or the end of s.
IsCharBoundary(s, b) == CharIndex(s, b, 1, 0) # 0

\* C14: no pull and no expansion panics on a slice, and between pulls
\* 0 <= token_start <= offset of the next character <= len, with
\* token_start and that offset on character boundaries: so the slice taken
\* at any later delimiter, and the final slice to the end, start and end on
\* boundaries inside the input and split no multi-byte character.
C14_SlicesInBounds ==
    /\ ~HasTag(items, "Panic")
    /\ Expanded => call.ret.result.tag # "Panic"
    /\ 0 <= split.token_start
    /\ split.token_start <= split.chars_iter.front_offset
    /\ split.chars_iter.front_offset <= ByteLen(src)
    /\ IsCharBoundary(src, split.token_start)
    /\ IsCharBoundary(src, split.chars_iter.front_offset)
    /\ split.chars_iter.front_offset = ByteLen(Consumed)

\* A literal holding the two-byte character was cut at a delimiter, and the
\* segments after it, at byte offsets larger than their character indexes,
\* were returned up to the end.
C14_Witness ==
    /\ Len(Emitted) >= 2
    /\ Emitted[1].tag = "Substr"
    /\ \E i \in 1..Len(Emitted[1].text) : Emitted[1].text[i] = Wide
    /\ Emitted[2].tag = "Var"
    /\ Exhausted

----------------------------------------------------------------------------
(* C15. One forward pass, at most floor(n/2) + 1 items.                    *)

\* The most items a scanner over s returns before None.
MaxItems(s) == Len(s) \div 2 + 1

\* The cursor is inside the input; every pull past the first MaxItems(src)
\* returned None; a scanner that is done has consumed every character.
C15_Bounded ==
    /\ split.chars_iter.pos \in 0..Len(src)
    /\ Len(Emitted) <= MaxItems(src)
    /\ \A i \in 1..Len(items) : i > MaxItems(src) => items[i] = NoneItem
    /\ split.done => split.chars_iter.pos = Len(src)

\* A pull never moves the cursor back: it consumes the run of characters
\* between the old cursor and the new one. A pull that returns a segment
\* cut at a delimiter stops just past that delimiter.
C15_Forward ==
    items' # items =>
        /\ split'.chars_iter.pos >= split.chars_iter.pos
        /\ split'.chars_iter.front_offset >= split.chars_iter.front_offset
        /\ (~split'.done /\ split'.chars_iter.pos > 0) =>
               src[split'.chars_iter.pos] = Delim

\* C15: scanning is one forward pass: the cursor never decreases across
\* pulls and ends at the end of the input, and an input of n characters
\* gives at most floor(n/2) + 1 items before a pull returns None.
C15_SinglePass == []C15_Bounded /\ [][C15_Forward]_vars

\* The bound is met: an input of five characters or more gave
\* floor(n/2) + 1 items, then None.
C15_Witness ==
    /\ Len(src) >= 5
    /\ Len(Emitted) = MaxItems(src)
    /\ Exhausted
    /\ split.chars_iter.pos = Len(src)

----------------------------------------------------------------------------
(* C16. Scanners share no state.                                           *)

\* The scanner over s after k pulls with no other scanner around, and the
\* items those pulls returned.
RECURSIVE Alone(_, _)
Alone(s, k) ==
    IF k = 0
    THEN [st |-> split_expandable_string(s), items |-> <<>>]
    ELSE LET before == Alone(s, k - 1)
             r == IterNextOf(s, before.st)
         IN  [st |-> r.st, items |-> Append(before.items, r.item)]

\* C16: however the pulls of two scanners are interleaved, each scanner has
\* returned exactly the items it returns when it is pulled alone, and is in
\* the state it is in then; two scanners over the same input return the
\* same sequence.
C16_NoSharedState ==
    /\ items = Alone(src, Len(items)).items
    /\ split = Alone(src, Len(items)).st
    /\ other.items = Alone(other.src, Len(other.items)).items
    /\ other.split = Alone(other.src, Len(other.items)).st
    /\ other.src = src =>
          /\ IsPrefix(items, other.items) \/ IsPrefix(other.items, items)
          /\ Len(items) = Len(other.items) => other.split = split

\* Both scanners were pulled to the end over different inputs, each giving
\* two items or more before None, one of the inputs with a two-byte character.
C16_Witness ==
    /\ other.src # src
    /\ Len(other.items) - CountTag(other.items, "None") >= 2
    /\ Len(Emitted) >= 2
    /\ Exhausted
    /\ other.split.done
    /\ \E i \in 1..Len(src) : src[i] = Wide

\* Two scanners over the same input, pulled in turns to the end.
C16_WitnessSame ==
    /\ other.src = src
    /\ Len(Emitted) >= 2
    /\ Exhausted
    /\ other.items = items

----------------------------------------------------------------------------
(* C17. The segments are the input without its delimiters.                 *)

\* The texts of the Substr and Var items of seq, concatenated in order.
RECURSIVE ConcatTexts(_)
ConcatTexts(seq) ==
    IF seq = <<>> THEN <<>>
    ELSE (IF Head(seq).tag \in {"Substr", "Var"} THEN Head(seq).text ELSE <<>>)
             \o ConcatTexts(Tail(seq))

\* s with every delimiter character removed.
Stripped(s) == SelectSeq(s, LAMBDA c : c # Delim)

\* The characters of src before the byte offset token_start.
BeforeTokenStart == SubSeq(src, 1, CharIndex(src, split.token_start, 1, 0) - 1)

\* C17: no returned segment contains the delimiter; the segments returned so
\* far are, in order and with nothing but delimiters between them, the
\* input up to token_start; and when the pulls have run out on an input
\* with an even number of delimiters, the texts of the segments concatenated
\* are the input with every delimiter removed.
C17_DelimiterFree ==
    /\ \A i \in 1..Len(items) :
          items[i].tag \in {"Substr", "Var"} => DelimsIn(items[i].text) = 0
    /\ ConcatTexts(items) = Stripped(BeforeTokenStart)
    /\ IsPrefix(ConcatTexts(items), Stripped(src))
    /\ (Exhausted /\ NumDelims(src) % 2 = 0) => ConcatTexts(items) = Stripped(src)

\* Literal, variable, literal: two delimiters, three segments, then None.
C17_Witness ==
    /\ Exhausted
    /\ NumDelims(src) % 2 = 0
    /\ NumDelims(src) >= 2
    /\ CountTag(items, "Var") >= 1
    /\ CountTag(items, "Substr") >= 2
    /\ ConcatTexts(items) # src

----------------------------------------------------------------------------
(* C18. The lookups of one expand_string_with_values call.                 *)

\* C18: the keys get_value was called with are, in source order and once
\* each, the names of the variable references the scanner returns, up to and
\* including the first one without a value: each key is the text between
\* the two delimiters; there is no call for a literal, for an empty
\* reference or for the text of an unterminated reference. An input without
\* delimiter is returned unchanged with no call.
C18_Lookups ==
    Expanded =>
        LET p == Pieces(src)
            lk == call.get_value
            i == FirstMissing(p, lk)
        IN  /\ call.ret.calls = VarNamesUpTo(p, IF i # 0 THEN i ELSE Len(p))
            /\ \A k \in 1..Len(call.ret.calls) :
                  /\ call.ret.calls[k] # <<>>
                  /\ DelimsIn(call.ret.calls[k]) = 0
            /\ NumDelims(src) = 0 =>
                  /\ call.ret.result = Ok(src)
                  /\ call.ret.calls = <<>>

\* A literal, a variable with a value, an empty reference: one call.
C18_Witness ==
    /\ Expanded
    /\ call.ret.result.tag = "Ok"
    /\ HasEmptyRef(src)
    /\ Pieces(src)[1] # <<>>
    /\ Len(call.ret.calls) = 1

\* An unterminated reference whose text has a value in the lookup, after a
\* variable that was looked up: the call ends with the error and one call.
C18_WitnessUnterminated ==
    /\ Expanded
    /\ call.ret.result = Err(ExpandInvalidFormat)
    /\ Len(call.ret.calls) = 1
    /\ LET p == Pieces(src)
       IN  /\ p[Len(p)] # <<>>
           /\ call.get_value[p[Len(p)]].some

\* Two references to the same variable: two calls with the same key.
C18_WitnessTwice ==
    /\ Expanded
    /\ Len(call.ret.calls) = 2
    /\ call.ret.calls[1] = call.ret.calls[2]

\* An input without delimiter, expanded.
C18_WitnessPlain ==
    /\ Expanded
    /\ NumDelims(src) = 0
    /\ Len(src) >= 2

----------------------------------------------------------------------------
(* C19. The special case for a delimiter at offset 0.                      *)

\* The loop of next without the guard n > 0: at every delimiter, the one at
\* offset 0 too, the slice [token_start, n) is taken, token_start becomes
\* n + 1 and the slice is returned only if it is not empty.
RECURSIVE ScanLoopGeneral(_, _)
ScanLoopGeneral(s, st) ==
    IF st.chars_iter.pos >= Len(s)
    THEN [st |-> st, item |-> LoopEnd]
    ELSE LET n == st.chars_iter.front_offset
             c == s[st.chars_iter.pos + 1]
             st1 == [st EXCEPT !.chars_iter =
                        [pos |-> @.pos + 1, front_offset |-> NextOffset(n, c)]]
         IN  IF c = Delim
             THEN LET reading_var == st1.reading_var
                      st2 == [st1 EXCEPT !.reading_var = Toggled(reading_var)]
                      token_slice == Slice(s, st2.token_start, n)
                      st3 == [st2 EXCEPT !.token_start = PastDelim(n)]
                  IN  IF token_slice.panic
                      THEN [st |-> st2, item |-> PanicItem]
                      ELSE IF TokenReturned(token_slice.text)
                      THEN [st |-> st3,
                            item |-> TokenEntry(reading_var, token_slice.text)]
                      ELSE ScanLoopGeneral(s, st3)
             ELSE ScanLoopGeneral(s, st1)

\* next with the loop above.
IterNextOfGeneral(s, st) ==
    IF IsDone(st)
    THEN [st |-> st, item |-> NoneItem]
    ELSE AfterLoop(s, ScanLoopGeneral(s, st))

\* The scanner with the general branch only, over s, after k pulls, and the
\* items those pulls returned.
RECURSIVE AloneGeneral(_, _)
AloneGeneral(s, k) ==
    IF k = 0
    THEN [st |-> split_expandable_string(s), items |-> <<>>]
    ELSE LET before == AloneGeneral(s, k - 1)
             r == IterNextOfGeneral(s, before.st)
         IN  [st |-> r.st, items |-> Append(before.items, r.item)]

\* C19: the scanner that always takes the general branch returns, pull for
\* pull, the items the code's scanner returns and is in the same state
\* (token_start, reading_var, done and cursor) after every pull.
C19_SpecialCaseRedundant ==
    /\ items = AloneGeneral(src, Len(items)).items
    /\ split = AloneGeneral(src, Len(items)).st
    /\ IterNextOfGeneral(src, split) = IterNextOf(src, split)

\* The input starts with a delimiter, which the code's scanner handled in
\* its special case; the pulls ran to the end and gave two items or more.
C19_Witness ==
    /\ Len(src) >= 1
    /\ src[1] = Delim
    /\ split.chars_iter.pos >= 1
    /\ Len(Emitted) >= 2
    /\ Emitted[1].tag = "Var"
    /\ Exhausted

\* The input is the delimiter alone: the special case, then the end.
C19_WitnessLone ==
    /\ src = <<Delim>>
    /\ split.token_start = 1
    /\ split.done

====
